---- MODULE Spec2Model ----
(***************************************************************************)
(* Model of the wsp server (server/server.go): the registry of pools, the  *)
(* Register and Request handlers, the dispatcher goroutine, the periodic   *)
(* sweep (clean) and Shutdown.  Pool and Connection live in other files of *)
(* the package; their operations are modelled from their contracts.        *)
(***************************************************************************)
EXTENDS Integers, Sequences, FiniteSets, TLC

\* ------------------------------------------------------------------ bounds
MaxRegs == 2        \* number of /register calls (each is one handler task)
MaxReqs == 2        \* number of /request calls (each is one handler task)

Regs == 1..MaxRegs
Reqs == 1..MaxReqs
\* The connection and the pool object a registration creates carry the
\* registration's number.
Conns == Regs
PoolObjs == Regs
None == 0

\* ------------------------------------------------------- greeting parsing
Digits == {"1", "2", "3"}

\* Greetings a peer may send as its first message, as character sequences.
Greetings ==
    { <<"a", "_", "1">>,
      <<"b", "_", "1">>,
      <<"a">>,
      <<"a", "_", "3", "_", "x">>,
      <<"a", "_", "x">> }

\* strings.Split(s, "_")
RECURSIVE Split(_)
Split(s) ==
    IF \A i \in 1..Len(s) : s[i] # "_"
    THEN <<s>>
    ELSE LET i == CHOOSE j \in 1..Len(s) :
                      s[j] = "_" /\ \A k \in 1..(j-1) : s[k] # "_"
         IN  <<SubSeq(s, 1, i-1)>> \o Split(SubSeq(s, i+1, Len(s)))

DigitVal(ch) == CASE ch = "1" -> 1 [] ch = "2" -> 2 [] ch = "3" -> 3 [] OTHER -> 0

\* strconv.Atoi: err # nil iff the field is empty or has a non-digit
AtoiOk(f) == Len(f) > 0 /\ \A i \in 1..Len(f) : f[i] \in Digits

RECURSIVE AtoiVal(_)
AtoiVal(f) ==
    IF Len(f) = 0 THEN 0
    ELSE 10 * AtoiVal(SubSeq(f, 1, Len(f)-1)) + DigitVal(f[Len(f)])

\* What Register does with a greeting (lines 280-287):
\* split[1] on a one-field greeting is an index-out-of-range panic.
ParsePanics(g) == Len(Split(g)) < 2
ParseAborts(g) == ~ParsePanics(g) /\ ~AtoiOk(Split(g)[2])
GreetingID(g) == Split(g)[1]
GreetingSize(g) == AtoiVal(Split(g)[2])

\* The spec's notion of a malformed greeting.
Malformed(g) == Len(Split(g)) # 2 \/ ~AtoiOk(Split(g)[2])

\* ------------------------------------------------- the boundary of a call
\* Values of the X-SECRET-KEY header, and the configured Config.SecretKey.
SecretKey == "k"
Secrets == {"k", "x", ""}

\* Values of the X-PROXY-DESTINATION header, as character sequences.
Destinations == { <<>>, <<":">>, <<"h">> }

\* url.Parse: a value that begins with a colon has no protocol scheme.
UrlParseOk(d) == ~(Len(d) > 0 /\ d[1] = ":")

\* ------------------------------------------------------------------- state
VARIABLES
    pools,      \* Server.pools: sequence of pool objects
    pid,        \* Pool.id of each pool object
    psize,      \* Pool.size
    live,       \* Pool's live set of connections
    idle,       \* Pool.idle: readiness tokens waiting in the pool's channel
    status,     \* Connection status: "None" (not created), Idle, Busy, Closed
    lockW,      \* Server.lock: the task holding it exclusively, or None
    lockR,      \* Server.lock: TRUE while the dispatcher holds it shared
    done,       \* Server.done is closed
    dispClosed, \* Server.dispatcher is closed
    rpc,        \* Register call r: position
    greeting,   \* Register call r: greeting read from the transport
    rpool,      \* Register call r: local variable pool
    ws,         \* Register call r: transport, "none" | "open" | "closed"
    hpc,        \* Request call q: position
    slot,       \* request.connection of call q: "none" | "open" | "closed"
    hconn,      \* Request call q: local variable connection
    result,     \* how call q's ConnectionRequest was resolved
    dpc,        \* dispatcher: position
    dreq,       \* dispatcher: local variable request
    expired,    \* dispatcher: ctx.Done() is closed
    waiting,    \* calls that were blocked in the send of line 229 when the
                \* dispatcher started the deadline of its current request
    cases,      \* dispatcher: pools whose idle channel is in the select cases
    dconn,      \* dispatcher: local variable connection
    cpc,        \* position of the sweeper goroutine and of Shutdown
    csnap,      \* clean: pools still to visit in its range loop
    cnew,       \* clean: local variable pools
    ssnap       \* Shutdown: pools still to visit in its range loop

vars == <<pools, pid, psize, live, idle, status, lockW, lockR, done,
          dispClosed, rpc, greeting, rpool, ws, hpc, slot, hconn, result,
          dpc, dreq, expired, waiting, cases, dconn, cpc, csnap, cnew,
          ssnap>>

poolVars == <<pools, pid, psize, live, idle, status>>
lockVars == <<lockW, lockR>>
regVars == <<rpc, greeting, rpool, ws>>
reqVars == <<hpc, slot, hconn, result>>
dispVars == <<dpc, dreq, expired, waiting, cases, dconn>>
cleanVars == <<cpc, csnap, cnew, ssnap>>

Cleaners == {"sweeper", "shutdown"}

\* The tasks that take Server.lock exclusively.
Unlocked == <<"none", 0>>
CleanName(k) == <<k, 0>>
RegName(r) == <<"register", r>>

SeqToSet(s) == { s[i] : i \in 1..Len(s) }

Init ==
    /\ pools = <<>>
    /\ pid = [p \in PoolObjs |-> <<>>]
    /\ psize = [p \in PoolObjs |-> 0]
    /\ live = [p \in PoolObjs |-> {}]
    /\ idle = [p \in PoolObjs |-> {}]
    /\ status = [c \in Conns |-> "None"]
    /\ lockW = Unlocked
    /\ lockR = FALSE
    /\ done = FALSE
    /\ dispClosed = FALSE
    /\ rpc = [r \in Regs |-> "new"]
    /\ greeting = [r \in Regs |-> <<>>]
    /\ rpool = [r \in Regs |-> None]
    /\ ws = [r \in Regs |-> "none"]
    /\ hpc = [q \in Reqs |-> "new"]
    /\ slot = [q \in Reqs |-> "none"]
    /\ hconn = [q \in Reqs |-> None]
    /\ result = [q \in Reqs |-> "None"]
    /\ dpc = "recv"
    /\ dreq = None
    /\ expired = FALSE
    /\ waiting = {}
    /\ cases = {}
    /\ dconn = None
    /\ cpc = [k \in Cleaners |-> IF k = "sweeper" THEN "wait" ELSE "idle"]
    /\ csnap = [k \in Cleaners |-> <<>>]
    /\ cnew = [k \in Cleaners |-> <<>>]
    /\ ssnap = <<>>

\* -------------------------------------------- Connection and Pool contracts
\* Connection.Take(): Idle -> Busy, reporting whether it succeeded.
TakeSucceeds(c) == status[c] = "Idle"

AfterTake(c) ==
    IF TakeSucceeds(c) THEN [status EXCEPT ![c] = "Busy"] ELSE status

\* Connection.Close(): any state -> Closed, and the connection leaves the
\* live set of its pool.  A token it left in the idle channel stays there.
AfterCloseStatus(cs) ==
    [c \in Conns |-> IF c \in cs /\ status[c] # "None" THEN "Closed" ELSE status[c]]

AfterCloseLive(cs) == [p \in PoolObjs |-> live[p] \ cs]

\* Pool.IsEmpty()
IsEmpty(p) == live[p] = {}

\* ------------------------------------------------------------- Server.lock
CanLock == lockW = Unlocked /\ ~lockR
CanRLock == lockW = Unlocked

\* -------------------------------------------------------- Server.Register

\* Lines 258-262: the secret does not match, the call answers with an error.
RegisterReject(r) ==
    /\ rpc[r] = "new"
    /\ \E k \in Secrets : k # SecretKey
    /\ rpc' = [rpc EXCEPT ![r] = "rejected"]
    /\ UNCHANGED <<greeting, rpool, ws, poolVars, lockVars, done, dispClosed,
                   reqVars, dispVars, cleanVars>>

\* Lines 256-287: secret accepted, upgrade done, greeting read and parsed.
RegisterGreet(r) ==
    /\ rpc[r] = "new"
    /\ \E k \in Secrets : k = SecretKey
    /\ \E g \in Greetings :
         /\ greeting' = [greeting EXCEPT ![r] = g]
         /\ IF ParsePanics(g)
            THEN /\ rpc' = [rpc EXCEPT ![r] = "panicked"]
                 /\ ws' = [ws EXCEPT ![r] = "open"]
            ELSE IF ParseAborts(g)
            THEN /\ rpc' = [rpc EXCEPT ![r] = "aborted"]
                 /\ ws' = [ws EXCEPT ![r] = "closed"]
            ELSE /\ rpc' = [rpc EXCEPT ![r] = "lock"]
                 /\ ws' = [ws EXCEPT ![r] = "open"]
    /\ UNCHANGED <<rpool, poolVars, lockVars, done, dispClosed, reqVars,
                   dispVars, cleanVars>>

\* Lines 297-302 with a comparison that never matches.
LookupMiss(id) == None

\* Lines 294-302: look the identity up in s.pools.
LookupPool(id) ==
    IF \E i \in 1..Len(pools) : pid[pools[i]] = id
    THEN pools[CHOOSE i \in 1..Len(pools) :
                  /\ pid[pools[i]] = id
                  /\ \A j \in 1..(i-1) : pid[pools[j]] # id]
    ELSE None

\* Lines 294-302 without lines 291-292: the lookup with no lock taken.
RegisterNoLock(r) ==
    /\ rpc[r] = "lock"
    /\ rpool' = [rpool EXCEPT ![r] = LookupPool(GreetingID(greeting[r]))]
    /\ rpc' = [rpc EXCEPT ![r] = "add"]
    /\ UNCHANGED <<greeting, ws, poolVars, lockVars, done, dispClosed,
                   reqVars, dispVars, cleanVars>>

\* Lines 291-302: s.lock.Lock(), then the lookup.
RegisterLock(r) ==
    /\ rpc[r] = "lock"
    /\ CanLock
    /\ lockW' = RegName(r)
    /\ rpool' = [rpool EXCEPT ![r] = LookupPool(GreetingID(greeting[r]))]
    /\ rpc' = [rpc EXCEPT ![r] = "add"]
    /\ UNCHANGED <<greeting, ws, poolVars, lockR, done, dispClosed,
                   reqVars, dispVars, cleanVars>>

\* Lines 303-312 with line 308 moved into the branch of line 303: the size
\* is set only when the pool is created.
RegisterAddSizeOnCreate(r) ==
    /\ rpc[r] = "add"
    /\ LET p == IF rpool[r] = None THEN r ELSE rpool[r]
       IN  /\ pools' = IF rpool[r] = None THEN Append(pools, p) ELSE pools
           /\ pid' = IF rpool[r] = None
                     THEN [pid EXCEPT ![p] = GreetingID(greeting[r])]
                     ELSE pid
           /\ psize' = IF rpool[r] = None
                       THEN [psize EXCEPT ![p] = GreetingSize(greeting[r])]
                       ELSE psize
           /\ live' = [live EXCEPT ![p] = @ \cup {r}]
           /\ idle' = [idle EXCEPT ![p] = @ \cup {r}]
           /\ status' = [status EXCEPT ![r] = "Idle"]
    /\ rpool' = [rpool EXCEPT ![r] = None]
    /\ greeting' = [greeting EXCEPT ![r] = <<>>]
    /\ lockW' = IF lockW = RegName(r) THEN Unlocked ELSE lockW
    /\ rpc' = [rpc EXCEPT ![r] = "done"]
    /\ UNCHANGED <<ws, lockR, done, dispClosed, reqVars, dispVars,
                   cleanVars>>

\* Lines 303-312: create the pool if none was found, set its size, add the
\* connection (Pool.Register: a new Idle connection whose readiness is
\* signalled), and release the lock on return.
RegisterAdd(r) ==
    /\ rpc[r] = "add"
    /\ LET p == IF rpool[r] = None THEN r ELSE rpool[r]
       IN  /\ pools' = IF rpool[r] = None THEN Append(pools, p) ELSE pools
           /\ pid' = IF rpool[r] = None
                     THEN [pid EXCEPT ![p] = GreetingID(greeting[r])]
                     ELSE pid
           /\ psize' = [psize EXCEPT ![p] = GreetingSize(greeting[r])]
           /\ live' = [live EXCEPT ![p] = @ \cup {r}]
           /\ idle' = [idle EXCEPT ![p] = @ \cup {r}]
           /\ status' = [status EXCEPT ![r] = "Idle"]
    /\ rpool' = [rpool EXCEPT ![r] = None]
    /\ greeting' = [greeting EXCEPT ![r] = <<>>]
    /\ lockW' = IF lockW = RegName(r) THEN Unlocked ELSE lockW
    /\ rpc' = [rpc EXCEPT ![r] = "done"]
    /\ UNCHANGED <<ws, lockR, done, dispClosed, reqVars, dispVars,
                   cleanVars>>

Register(r) ==
    \/ RegisterReject(r)
    \/ RegisterGreet(r)
    \/ RegisterLock(r)
    \/ RegisterAdd(r)

\* --------------------------------------------------------- Server.Request
\* Lines 203-212 with the return statements missing: the error is written
\* and the call goes on to dispatch.
RequestRejectNoReturn(q) ==
    /\ hpc[q] = "new"
    /\ \E d \in Destinations : d = <<>> \/ ~UrlParseOk(d)
    /\ hpc' = [hpc EXCEPT ![q] = "submit"]
    /\ slot' = [slot EXCEPT ![q] = "open"]
    /\ result' = [result EXCEPT ![q] = "Rejected"]
    /\ UNCHANGED <<hconn, poolVars, lockVars, done, dispClosed, regVars,
                   dispVars, cleanVars>>

\* Lines 203-212: the destination header is missing or does not parse, the
\* call answers with an error.
RequestReject(q) ==
    /\ hpc[q] = "new"
    /\ \E d \in Destinations : d = <<>> \/ ~UrlParseOk(d)
    /\ hpc' = [hpc EXCEPT ![q] = "done"]
    /\ result' = [result EXCEPT ![q] = "Rejected"]
    /\ UNCHANGED <<slot, hconn, poolVars, lockVars, done, dispClosed,
                   regVars, dispVars, cleanVars>>

\* Lines 200-223: the destination header parses; s.pools is read without the
\* lock; with no pool the call answers "No proxy available", otherwise it
\* creates its ConnectionRequest.
RequestCheck(q) ==
    /\ hpc[q] = "new"
    /\ \E d \in Destinations : d # <<>> /\ UrlParseOk(d)
    /\ IF Len(pools) = 0
       THEN /\ hpc' = [hpc EXCEPT ![q] = "done"]
            /\ result' = [result EXCEPT ![q] = "Unavailable"]
            /\ slot' = slot
       ELSE /\ hpc' = [hpc EXCEPT ![q] = "submit"]
            /\ slot' = [slot EXCEPT ![q] = "open"]
            /\ result' = result
    /\ UNCHANGED <<hconn, poolVars, lockVars, done, dispClosed, regVars,
                   dispVars, cleanVars>>

\* Line 229 on a closed s.dispatcher: the send panics.
RequestSendPanics(q) ==
    /\ hpc[q] = "submit"
    /\ dispClosed
    /\ hpc' = [hpc EXCEPT ![q] = "done"]
    /\ result' = [result EXCEPT ![q] = "Panic"]
    /\ UNCHANGED <<slot, hconn, poolVars, lockVars, done, dispClosed,
                   regVars, dispVars, cleanVars>>

\* Lines 235-241: the receive on a closed request.connection yields nil.
RequestReceiveNil(q) ==
    /\ hpc[q] = "wait"
    /\ slot[q] = "closed"
    /\ hpc' = [hpc EXCEPT ![q] = "done"]
    /\ UNCHANGED <<slot, hconn, result, poolVars, lockVars, done, dispClosed,
                   regVars, dispVars, cleanVars>>

\* Line 244, proxyRequest returns nil: the connection has served the request
\* and goes back to Idle with its readiness signalled (unless it was closed
\* meanwhile).
RequestForwardOk(q) ==
    /\ hpc[q] = "forward"
    /\ LET c == hconn[q]
       IN  IF status[c] = "Busy"
           THEN /\ status' = [status EXCEPT ![c] = "Idle"]
                /\ idle' = [p \in PoolObjs |->
                              IF c \in live[p] THEN idle[p] \cup {c} ELSE idle[p]]
           ELSE UNCHANGED <<status, idle>>
    /\ hpc' = [hpc EXCEPT ![q] = "done"]
    /\ hconn' = [hconn EXCEPT ![q] = None]
    /\ UNCHANGED <<slot, result, pools, pid, psize, live, lockVars, done,
                   dispClosed, regVars, dispVars, cleanVars>>

\* Lines 244-252 with the failure taken out on the whole pool: every
\* connection of the failed connection's pool is closed.
RequestForwardFailsClosesPool(q) ==
    /\ hpc[q] = "forward"
    /\ LET cs == {hconn[q]} \cup
                 UNION { live[p] : p \in { p2 \in PoolObjs : hconn[q] \in live[p2] } }
       IN  /\ status' = AfterCloseStatus(cs)
           /\ live' = AfterCloseLive(cs)
    /\ hpc' = [hpc EXCEPT ![q] = "done"]
    /\ hconn' = [hconn EXCEPT ![q] = None]
    /\ UNCHANGED <<slot, result, pools, pid, psize, idle, lockVars, done,
                   dispClosed, regVars, dispVars, cleanVars>>

\* Lines 244-252, proxyRequest returns an error: connection.Close().
RequestForwardFails(q) ==
    /\ hpc[q] = "forward"
    /\ status' = AfterCloseStatus({hconn[q]})
    /\ live' = AfterCloseLive({hconn[q]})
    /\ hpc' = [hpc EXCEPT ![q] = "done"]
    /\ hconn' = [hconn EXCEPT ![q] = None]
    /\ UNCHANGED <<slot, result, pools, pid, psize, idle, lockVars, done,
                   dispClosed, regVars, dispVars, cleanVars>>

Request(q) ==
    \/ RequestReject(q)
    \/ RequestCheck(q)
    \/ RequestSendPanics(q)
    \/ RequestReceiveNil(q)
    \/ RequestForwardOk(q)
    \/ RequestForwardFails(q)

\* ------------------------------------------------ Server.dispatchConnections
Scanning == {"top", "rlock", "snap", "select", "take", "deliver"}

\* Lines 144, 152-153 with line 229: the dispatcher receives the request that
\* call q is sending, and starts its deadline.
DispatchAccept(q) ==
    /\ dpc = "recv"
    /\ ~dispClosed
    /\ hpc[q] = "submit"
    /\ hpc' = [hpc EXCEPT ![q] = "wait"]
    /\ dreq' = q
    /\ expired' = FALSE
    /\ waiting' = { q2 \in Reqs : q2 # q /\ hpc[q2] = "submit" }
    /\ dpc' = "top"
    /\ UNCHANGED <<cases, dconn, slot, hconn, result, poolVars, lockVars,
                   done, dispClosed, regVars, cleanVars>>

\* Lines 144-149: s.dispatcher is closed, the loop ends.
DispatchExit ==
    /\ dpc = "recv"
    /\ dispClosed
    /\ dpc' = "exited"
    /\ UNCHANGED <<dreq, expired, waiting, cases, dconn, poolVars, lockVars, done,
                   dispClosed, regVars, reqVars, cleanVars>>

\* The context's deadline passes.  Line 159 is the only place that looks at
\* ctx.Done(), so the deadline is let pass when the dispatcher is there.
DeadlineElapses ==
    /\ dpc = "top"
    /\ ~expired
    /\ expired' = TRUE
    /\ UNCHANGED <<dpc, dreq, waiting, cases, dconn, poolVars, lockVars, done,
                   dispClosed, regVars, reqVars, cleanVars>>

\* Lines 158-162 with the case of line 159 never chosen: the scan goes on
\* after the deadline.
DispatchTopIgnoresDeadline ==
    /\ dpc = "top"
    /\ dpc' = "rlock"
    /\ UNCHANGED <<dreq, expired, waiting, cases, dconn, reqVars, poolVars, lockVars,
                   done, dispClosed, regVars, cleanVars>>

\* Lines 158-162
DispatchTop ==
    /\ dpc = "top"
    /\ IF expired
       THEN /\ dpc' = "close"
            /\ result' = [result EXCEPT ![dreq] = "TimedOut"]
       ELSE /\ dpc' = "rlock"
            /\ result' = result
    /\ UNCHANGED <<dreq, expired, waiting, cases, dconn, hpc, slot, hconn, poolVars,
                   lockVars, done, dispClosed, regVars, cleanVars>>

\* Line 164
DispatchRLock ==
    /\ dpc = "rlock"
    /\ CanRLock
    /\ lockR' = TRUE
    /\ dpc' = "snap"
    /\ UNCHANGED <<dreq, expired, waiting, cases, dconn, lockW, poolVars, done,
                   dispClosed, regVars, reqVars, cleanVars>>

\* Lines 165-181 with "continue" for the break of line 168.
DispatchSnapshotRetries ==
    /\ dpc = "snap"
    /\ IF Len(pools) = 0
       THEN /\ dpc' = "top"
            /\ cases' = cases
       ELSE /\ dpc' = "select"
            /\ cases' = SeqToSet(pools)
    /\ lockR' = FALSE
    /\ UNCHANGED <<dreq, expired, waiting, dconn, lockW, reqVars, poolVars, done,
                   dispClosed, regVars, cleanVars>>

\* Lines 165-181 without the RUnlock of line 167: the scan that finds no
\* pool leaves with the lock held.
DispatchSnapshotKeepsLock ==
    /\ dpc = "snap"
    /\ IF Len(pools) = 0
       THEN /\ dpc' = "close"
            /\ result' = [result EXCEPT ![dreq] = "Unavailable"]
            /\ cases' = cases
            /\ lockR' = lockR
       ELSE /\ dpc' = "select"
            /\ cases' = SeqToSet(pools)
            /\ result' = result
            /\ lockR' = FALSE
    /\ UNCHANGED <<dreq, expired, waiting, dconn, lockW, hpc, slot, hconn,
                   poolVars, done, dispClosed, regVars, cleanVars>>

\* Lines 165-181: no pool ends the scan; otherwise the select cases are built
\* from the pools' idle channels; the lock is released either way.
DispatchSnapshot ==
    /\ dpc = "snap"
    /\ IF Len(pools) = 0
       THEN /\ dpc' = "close"
            /\ result' = [result EXCEPT ![dreq] = "Unavailable"]
            /\ cases' = cases
       ELSE /\ dpc' = "select"
            /\ cases' = SeqToSet(pools)
            /\ result' = result
    /\ lockR' = FALSE
    /\ UNCHANGED <<dreq, expired, waiting, dconn, lockW, hpc, slot, hconn, poolVars,
                   done, dispClosed, regVars, cleanVars>>

\* Lines 183-187: reflect.Select receives one waiting token, or takes the
\* default case when no idle channel has one.
Ready == UNION { idle[p] : p \in cases }

\* Lines 183-187 with the test of line 184 inverted: a received token is
\* dropped and the scan starts over.
DispatchSelectInverted ==
    /\ dpc = "select"
    /\ IF Ready = {}
       THEN idle' = idle
       ELSE \E c \in Ready :
              idle' = [p \in PoolObjs |->
                         IF p \in cases THEN idle[p] \ {c} ELSE idle[p]]
    /\ dpc' = "top"
    /\ cases' = {}
    /\ UNCHANGED <<dreq, expired, waiting, dconn, pools, pid, psize, live, status,
                   lockVars, done, dispClosed, regVars, reqVars, cleanVars>>

DispatchSelect ==
    /\ dpc = "select"
    /\ IF Ready = {}
       THEN /\ dpc' = "top"
            /\ UNCHANGED <<dconn, idle>>
       ELSE \E c \in Ready :
              /\ dconn' = c
              /\ idle' = [p \in PoolObjs |->
                            IF p \in cases THEN idle[p] \ {c} ELSE idle[p]]
              /\ dpc' = "take"
    /\ cases' = {}
    /\ UNCHANGED <<dreq, expired, waiting, pools, pid, psize, live, status, lockVars,
                   done, dispClosed, regVars, reqVars, cleanVars>>

\* Line 190 with the result of Take() ignored.
DispatchTakeUnchecked ==
    /\ dpc = "take"
    /\ status' = AfterTake(dconn)
    /\ dpc' = "deliver"
    /\ dconn' = dconn
    /\ UNCHANGED <<dreq, expired, waiting, cases, pools, pid, psize, live, idle,
                   lockVars, done, dispClosed, regVars, reqVars, cleanVars>>

\* Line 190: connection.Take()
DispatchTake ==
    /\ dpc = "take"
    /\ status' = AfterTake(dconn)
    /\ IF TakeSucceeds(dconn)
       THEN /\ dpc' = "deliver"
            /\ dconn' = dconn
       ELSE /\ dpc' = "top"
            /\ dconn' = None
    /\ UNCHANGED <<dreq, expired, waiting, cases, pools, pid, psize, live, idle,
                   lockVars, done, dispClosed, regVars, reqVars, cleanVars>>

\* Line 191 without the break of line 192: the scan goes on after delivery.
DispatchDeliverNoBreak ==
    /\ dpc = "deliver"
    /\ hpc[dreq] = "wait"
    /\ slot[dreq] = "open"
    /\ hconn' = [hconn EXCEPT ![dreq] = dconn]
    /\ hpc' = [hpc EXCEPT ![dreq] = "forward"]
    /\ result' = [result EXCEPT ![dreq] = "Matched"]
    /\ dconn' = None
    /\ dpc' = "top"
    /\ UNCHANGED <<dreq, expired, waiting, cases, slot, poolVars, lockVars, done,
                   dispClosed, regVars, cleanVars>>

\* Line 191 with line 235: the handler receives the connection.
DispatchDeliver ==
    /\ dpc = "deliver"
    /\ hpc[dreq] = "wait"
    /\ slot[dreq] = "open"
    /\ hconn' = [hconn EXCEPT ![dreq] = dconn]
    /\ hpc' = [hpc EXCEPT ![dreq] = "forward"]
    /\ result' = [result EXCEPT ![dreq] = "Matched"]
    /\ dconn' = None
    /\ dpc' = "close"
    /\ UNCHANGED <<dreq, expired, waiting, cases, slot, poolVars, lockVars, done,
                   dispClosed, regVars, cleanVars>>

\* Line 196 left out: the dispatcher goes back to line 144 with the slot
\* still open.
DispatchCloseSkipped ==
    /\ dpc = "close"
    /\ dreq' = None
    /\ expired' = FALSE
    /\ waiting' = {}
    /\ dpc' = "recv"
    /\ UNCHANGED <<cases, dconn, slot, hpc, hconn, result, poolVars, lockVars,
                   done, dispClosed, regVars, cleanVars>>

\* Line 196: close(request.connection)
DispatchClose ==
    /\ dpc = "close"
    /\ slot' = [slot EXCEPT ![dreq] = "closed"]
    /\ dreq' = None
    /\ expired' = FALSE
    /\ waiting' = {}
    /\ dpc' = "recv"
    /\ UNCHANGED <<cases, dconn, hpc, hconn, result, poolVars, lockVars,
                   done, dispClosed, regVars, cleanVars>>

Dispatcher ==
    \/ \E q \in Reqs : DispatchAccept(q)
    \/ DispatchExit
    \/ DispatchTop
    \/ DispatchRLock
    \/ DispatchSnapshot
    \/ DispatchSelect
    \/ DispatchTake
    \/ DispatchDeliver
    \/ DispatchClose

\* ------------------------------------------------------------ Server.clean
\* Pool.Shutdown(): closes every live connection and clears the live set.
PoolShutdownStatus(p) == AfterCloseStatus(live[p])
PoolShutdownLive(p) == [live EXCEPT ![p] = {}]

Finished(k) == IF k = "sweeper" THEN "wait" ELSE "done"

\* Lines 110-120: take the lock; return at once when there is no pool.
CleanLock(k) ==
    /\ cpc[k] = "lock"
    /\ CanLock
    /\ IF Len(pools) = 0
       THEN /\ cpc' = [cpc EXCEPT ![k] = Finished(k)]
            /\ UNCHANGED <<lockW, csnap, cnew>>
       ELSE /\ lockW' = CleanName(k)
            /\ csnap' = [csnap EXCEPT ![k] = pools]
            /\ cnew' = [cnew EXCEPT ![k] = <<>>]
            /\ cpc' = [cpc EXCEPT ![k] = "iter"]
    /\ UNCHANGED <<ssnap, poolVars, lockR, done, dispClosed, regVars,
                   reqVars, dispVars>>

\* Lines 121-132 with the test of line 122 dropped: every pool is kept.
CleanIterKeepsAll(k) ==
    /\ cpc[k] = "iter"
    /\ csnap[k] # <<>>
    /\ cnew' = [cnew EXCEPT ![k] = Append(@, Head(csnap[k]))]
    /\ csnap' = [csnap EXCEPT ![k] = Tail(@)]
    /\ UNCHANGED <<cpc, ssnap, poolVars, lockVars, done, dispClosed, regVars,
                   reqVars, dispVars>>

\* Lines 121-132: one iteration of the loop over s.pools.
CleanIter(k) ==
    /\ cpc[k] = "iter"
    /\ csnap[k] # <<>>
    /\ LET p == Head(csnap[k])
       IN  IF IsEmpty(p)
           THEN /\ status' = PoolShutdownStatus(p)
                /\ live' = PoolShutdownLive(p)
                /\ cnew' = cnew
           ELSE /\ cnew' = [cnew EXCEPT ![k] = Append(@, p)]
                /\ UNCHANGED <<status, live>>
    /\ csnap' = [csnap EXCEPT ![k] = Tail(@)]
    /\ UNCHANGED <<cpc, ssnap, pools, pid, psize, idle, lockVars, done,
                   dispClosed, regVars, reqVars, dispVars>>

\* Line 136 and the deferred unlock.
CleanAssign(k) ==
    /\ cpc[k] = "iter"
    /\ csnap[k] = <<>>
    /\ pools' = cnew[k]
    /\ cnew' = [cnew EXCEPT ![k] = <<>>]
    /\ lockW' = Unlocked
    /\ cpc' = [cpc EXCEPT ![k] = Finished(k)]
    /\ UNCHANGED <<csnap, ssnap, pid, psize, live, idle, status, lockR, done,
                   dispClosed, regVars, reqVars, dispVars>>

Clean(k) ==
    \/ CleanLock(k)
    \/ CleanIter(k)
    \/ CleanAssign(k)

\* ------------------------------------------- the goroutine of Server.Start
\* Line 83: the 5 second timer fires.
SweepTick ==
    /\ cpc["sweeper"] = "wait"
    /\ ~done
    /\ cpc' = [cpc EXCEPT !["sweeper"] = "lock"]
    /\ UNCHANGED <<csnap, cnew, ssnap, poolVars, lockVars, done, dispClosed,
                   regVars, reqVars, dispVars>>

\* Lines 81-82
SweepExit ==
    /\ cpc["sweeper"] = "wait"
    /\ done
    /\ cpc' = [cpc EXCEPT !["sweeper"] = "exited"]
    /\ UNCHANGED <<csnap, cnew, ssnap, poolVars, lockVars, done, dispClosed,
                   regVars, reqVars, dispVars>>

\* -------------------------------------------------------- Server.Shutdown
\* Line 320
ShutdownCloseDone ==
    /\ cpc["shutdown"] = "idle"
    /\ done' = TRUE
    /\ cpc' = [cpc EXCEPT !["shutdown"] = "closeDispatcher"]
    /\ UNCHANGED <<csnap, cnew, ssnap, poolVars, lockVars, dispClosed,
                   regVars, reqVars, dispVars>>

\* Line 321 left out: s.dispatcher stays open.
ShutdownSkipsDispatcher ==
    /\ cpc["shutdown"] = "closeDispatcher"
    /\ cpc' = [cpc EXCEPT !["shutdown"] = "range"]
    /\ UNCHANGED <<csnap, cnew, ssnap, poolVars, lockVars, done, dispClosed,
                   regVars, reqVars, dispVars>>

\* Line 321
ShutdownCloseDispatcher ==
    /\ cpc["shutdown"] = "closeDispatcher"
    /\ dispClosed' = TRUE
    /\ cpc' = [cpc EXCEPT !["shutdown"] = "range"]
    /\ UNCHANGED <<csnap, cnew, ssnap, poolVars, lockVars, done, regVars,
                   reqVars, dispVars>>

\* Line 322: the range expression s.pools is evaluated once, without the lock.
ShutdownRange ==
    /\ cpc["shutdown"] = "range"
    /\ ssnap' = pools
    /\ cpc' = [cpc EXCEPT !["shutdown"] = "pools"]
    /\ UNCHANGED <<csnap, cnew, poolVars, lockVars, done, dispClosed,
                   regVars, reqVars, dispVars>>

\* Line 323: pool.Shutdown() for the next pool of the range.
ShutdownPool ==
    /\ cpc["shutdown"] = "pools"
    /\ ssnap # <<>>
    /\ status' = PoolShutdownStatus(Head(ssnap))
    /\ live' = PoolShutdownLive(Head(ssnap))
    /\ ssnap' = Tail(ssnap)
    /\ UNCHANGED <<cpc, csnap, cnew, pools, pid, psize, idle, lockVars, done,
                   dispClosed, regVars, reqVars, dispVars>>

\* Line 325: the loop is over, s.clean() is called.
ShutdownClean ==
    /\ cpc["shutdown"] = "pools"
    /\ ssnap = <<>>
    /\ cpc' = [cpc EXCEPT !["shutdown"] = "lock"]
    /\ UNCHANGED <<csnap, cnew, ssnap, poolVars, lockVars, done, dispClosed,
                   regVars, reqVars, dispVars>>

Shutdown ==
    \/ ShutdownCloseDone
    \/ ShutdownCloseDispatcher
    \/ ShutdownRange
    \/ ShutdownPool
    \/ ShutdownClean

\* ----------------------------------------------------------- specification
Next ==
    \/ \E r \in Regs : Register(r)
    \/ \E q \in Reqs : Request(q)
    \/ Dispatcher
    \/ DeadlineElapses
    \/ \E k \in Cleaners : Clean(k)
    \/ SweepTick
    \/ SweepExit
    \/ Shutdown

Spec == Init /\ [][Next]_vars

\* Scheduling: every started task keeps running (goroutines are scheduled
\* fairly, timers fire, proxyRequest returns), and sync.RWMutex starves
\* neither a waiting Lock nor a waiting RLock.  The arrivals of calls to
\* Register, Request and Shutdown are left to the environment.
DispatchRun ==
    \/ \E q \in Reqs : DispatchAccept(q)
    \/ DispatchExit
    \/ DispatchTop
    \/ DispatchSnapshot
    \/ DispatchSelect
    \/ DispatchTake
    \/ DispatchDeliver
    \/ DispatchClose

SweepRun ==
    \/ SweepTick
    \/ SweepExit
    \/ CleanIter("sweeper")
    \/ CleanAssign("sweeper")

\* The steps of the tasks that run once.
CallsRun ==
    \/ \E r \in Regs : RegisterAdd(r)
    \/ \E q \in Reqs : \/ RequestSendPanics(q)
                       \/ RequestReceiveNil(q)
                       \/ RequestForwardOk(q)
                       \/ RequestForwardFails(q)
    \/ ShutdownCloseDispatcher
    \/ ShutdownRange
    \/ ShutdownPool
    \/ ShutdownClean
    \/ CleanIter("shutdown")
    \/ CleanAssign("shutdown")

Fairness ==
    /\ WF_vars(DispatchRun)
    /\ WF_vars(SweepRun)
    /\ WF_vars(CallsRun)
    /\ SF_vars(DispatchRLock)
    /\ SF_vars(DeadlineElapses)
    /\ SF_vars(\E k \in Cleaners : CleanLock(k))
    /\ SF_vars(\E r \in Regs : RegisterLock(r))

\* Liveness is checked on the part of the system in which one Request call
\* is made, every call passes the checks of its headers and every greeting
\* is well-formed, everything else unchanged.
LiveScope ==
    /\ \A q \in Reqs : q > 1 => hpc[q] = "new"
    /\ \A r \in Regs : greeting[r] = <<>> \/ ~Malformed(greeting[r])

LiveNext ==
    \/ \E r \in Regs : \/ RegisterGreet(r) /\ LiveScope'
                       \/ RegisterLock(r)
                       \/ RegisterAdd(r)
    \/ \E q \in Reqs : \/ RequestCheck(q) /\ LiveScope'
                       \/ RequestSendPanics(q)
                       \/ RequestReceiveNil(q)
                       \/ RequestForwardOk(q)
                       \/ RequestForwardFails(q)
    \/ Dispatcher
    \/ DeadlineElapses
    \/ \E k \in Cleaners : Clean(k)
    \/ SweepTick
    \/ SweepExit
    \/ Shutdown

FairSpec == Init /\ [][LiveNext]_vars /\ Fairness

InRegistry(p) == \E i \in 1..Len(pools) : pools[i] = p

\* ================================================================== claims
Holders(c) == { q \in Reqs : hpc[q] = "forward" /\ hconn[q] = c }

\* C1: the dispatcher reaches its delivery (line 191) only by a successful
\* Take() of its own on the connection it delivers (Idle to Busy); a
\* connection that is handed out is never Idle and is never held by two
\* requests, nor by one request while the dispatcher is delivering it to
\* another.
C1_DeliverOnlyAfterTake ==
    /\ [][ dpc' = "deliver" /\ dpc # "deliver" =>
             /\ dpc = "take"
             /\ dconn' = dconn
             /\ status[dconn] = "Idle"
             /\ status'[dconn] = "Busy" ]_vars
    /\ [](\A c \in Conns :
             /\ Cardinality(Holders(c)) <= 1
             /\ Holders(c) # {} => status[c] \in {"Busy", "Closed"}
             /\ (dpc = "deliver" /\ dconn = c) =>
                    Holders(c) = {} /\ status[c] \in {"Busy", "Closed"})

\* Both requests hold a connection, and the two connections differ.
C1_Witness ==
    \E q1, q2 \in Reqs :
        /\ q1 # q2
        /\ hpc[q1] = "forward" /\ hpc[q2] = "forward"
        /\ hconn[q1] # hconn[q2]
        /\ status[hconn[q1]] = "Busy" /\ status[hconn[q2]] = "Busy"

\* C2: a request the dispatcher accepted gets exactly one outcome.  While it
\* is scanned its handler waits on an open slot; the handler holds a
\* connection iff the outcome is Matched; the slot is closed only after the
\* outcome is fixed and the dispatcher has let go of the request; a waiting
\* handler is never left with an open slot nobody is working on; the
\* dispatcher never stands at a delivery its handler is not waiting for.
C2_ExactlyOneOutcome ==
    \A q \in Reqs :
        /\ (dreq = q /\ dpc \in Scanning) =>
               hpc[q] = "wait" /\ slot[q] = "open" /\ result[q] = "None"
        /\ hpc[q] = "wait" => (dreq = q \/ slot[q] = "closed")
        /\ hpc[q] = "forward" => hconn[q] # None /\ result[q] = "Matched"
        /\ hconn[q] # None => hpc[q] = "forward"
        /\ slot[q] = "closed" =>
               /\ dreq # q
               /\ result[q] \in {"Matched", "TimedOut", "Unavailable"}
               /\ (result[q] = "Matched" => hpc[q] \in {"forward", "done"})
        /\ (result[q] \in {"TimedOut", "Unavailable"} /\ slot[q] # "none") =>
               hpc[q] \in {"wait", "done"} /\ hconn[q] = None
        /\ (hpc[q] = "done" /\ slot[q] = "open") =>
               \/ result[q] = "Panic"
               \/ (result[q] = "Matched" /\ dreq = q /\ dpc = "close")

\* One request was Matched and has finished, the other got the closed slot.
C2_Witness ==
    \E q1, q2 \in Reqs :
        /\ hpc[q1] = "done" /\ result[q1] = "Matched" /\ slot[q1] = "closed"
        /\ hpc[q2] = "done" /\ result[q2] \in {"TimedOut", "Unavailable"}
        /\ slot[q2] = "closed"

\* C3: a pool leaves the registry only when its live set is empty, at the
\* rewrite of the pool list and just before it; a registration never adds a
\* connection to a pool that a sweep in progress has already found empty.
C3_LivePoolNotRemoved ==
    [][ \A p \in PoolObjs :
          (InRegistry(p) /\ ~InRegistry(p)') => (live[p] = {} /\ live'[p] = {}) ]_vars

\* A sweep has found a pool empty and is about to drop it, while a
\* registration for that pool's identity waits for the lock.
C3_Witness ==
    \E k \in Cleaners, r \in Regs, p \in PoolObjs :
        /\ cpc[k] = "iter" /\ csnap[k] = <<>>
        /\ InRegistry(p) /\ p \notin SeqToSet(cnew[k])
        /\ rpc[r] = "lock"
        /\ GreetingID(greeting[r]) = pid[p]

\* C4: a pass of clean drops exactly the pools it finds empty when it
\* looks at them and keeps the others, in order, and writes that list back;
\* as long as Shutdown has not been called the sweep comes round again; so a
\* pool that is empty in the registry does not stay so for ever.
C4_EmptyPoolSwept ==
    /\ [][ \A k \in Cleaners :
             /\ (cpc[k] = "iter" /\ csnap'[k] # csnap[k]) =>
                    LET p == Head(csnap[k])
                    IN  IF live[p] = {}
                        THEN cnew'[k] = cnew[k]
                        ELSE cnew'[k] = Append(cnew[k], p)
             /\ (cpc[k] = "iter" /\ cpc'[k] # "iter") => pools' = cnew[k] ]_vars
    /\ []<>(done \/ cpc["sweeper"] = "lock")
    /\ \A p \in PoolObjs :
          (InRegistry(p) /\ IsEmpty(p)) ~> (~(InRegistry(p) /\ IsEmpty(p)) \/ done)

\* The server is running, and a pool that was created has been swept away.
C4_Witness ==
    /\ ~done
    /\ cpc["sweeper"] = "wait"
    /\ \E p \in PoolObjs : pid[p] # <<>> /\ ~InRegistry(p) /\ IsEmpty(p)

\* C5: the pool list never holds two pools of the same identity.
C5_OnePoolPerIdentity ==
    \A i, j \in 1..Len(pools) : i # j => pid[pools[i]] # pid[pools[j]]

\* Two registrations for one identity have completed and share one pool.
C5_Witness ==
    \E p \in PoolObjs : InRegistry(p) /\ Cardinality(live[p]) = 2

\* C6 (the claim as stated): once Shutdown has been called, a Request call
\* that is about to submit, is submitting, or waits for its outcome ends in
\* no other way than with the closed slot and no connection.
Pending == {"submit", "wait"}

C6_AfterShutdownUnavailable ==
    [][ \A q \in Reqs :
          (done /\ hpc[q] \in Pending /\ hpc'[q] \notin Pending) =>
              /\ hpc'[q] = "done"
              /\ hconn'[q] = None
              /\ result'[q] \in {"Unavailable", "TimedOut"} ]_vars

\* C7 (the claim as stated): once Shutdown has returned, the registry holds
\* no pool and every connection is Closed.
C7_ShutdownLeavesNothing ==
    cpc["shutdown"] = "done" =>
        /\ pools = <<>>
        /\ \A c \in Conns : status[c] \in {"None", "Closed"}

\* C8 (the claim as stated): a Register call that has read a malformed
\* greeting is aborted with its transport closed, and registers nothing.
C8_MalformedGreetingAborts ==
    \A r \in Regs :
        (greeting[r] # <<>> /\ Malformed(greeting[r])) =>
            /\ rpc[r] = "aborted"
            /\ ws[r] = "closed"
            /\ status[r] = "None"
            /\ \A p \in PoolObjs : r \notin live[p]

\* C9: with no pool in the registry a request is answered Unavailable at
\* once, with the deadline not elapsed: the handler that reads an empty pool
\* list returns its error in that step, without creating a ConnectionRequest;
\* the dispatcher that finds the list empty under the lock leaves the scan in
\* that step, having delivered nothing, and its next step closes the slot.
C9_NoPoolsUnavailable ==
    [][ /\ \A q \in Reqs :
             (hpc[q] = "new" /\ hpc'[q] # "new" /\ Len(pools) = 0
                 /\ result'[q] # "Rejected") =>
                 /\ hpc'[q] = "done"
                 /\ result'[q] = "Unavailable"
                 /\ slot'[q] = "none"
        /\ (dpc = "snap" /\ dpc' # "snap" /\ Len(pools) = 0) =>
                 /\ ~expired
                 /\ dpc' = "close"
                 /\ dreq' = dreq
                 /\ result'[dreq] = "Unavailable"
                 /\ hconn'[dreq] = None
        /\ (dpc = "close" /\ dpc' # "close") =>
                 /\ slot'[dreq] = "closed"
                 /\ result'[dreq] = result[dreq] ]_vars

\* One request was turned away by its handler, another by the dispatcher.
C9_Witness ==
    \E q1, q2 \in Reqs :
        /\ hpc[q1] = "done" /\ result[q1] = "Unavailable" /\ slot[q1] = "none"
        /\ hpc[q2] = "done" /\ result[q2] = "Unavailable" /\ slot[q2] = "closed"

\* C10: a request submitted while exactly one connection c is Idle, with its
\* token waiting in a registered pool, is Matched with c, and c is Busy when
\* the handler receives it -- unless Shutdown is called, the deadline elapses
\* or another connection turns Idle first.  Step by step: a poll that finds
\* only c's token receives it; Take() on the Idle connection makes it Busy and
\* leads to the delivery; the delivery hands the handler that connection.
OnlyIdle(c) ==
    /\ status[c] = "Idle"
    /\ \A c2 \in Conns : c2 # c => status[c2] # "Idle"
    /\ \E p \in PoolObjs : InRegistry(p) /\ c \in live[p] /\ c \in idle[p]

C10_SingleIdleMatched ==
    /\ [][ /\ \A c \in Conns :
                (dpc = "select" /\ dpc' # "select" /\ Ready = {c}) =>
                    dpc' = "take" /\ dconn' = c
           /\ (dpc = "take" /\ dpc' # "take" /\ status[dconn] = "Idle") =>
                    dpc' = "deliver" /\ dconn' = dconn /\ status'[dconn] = "Busy"
           /\ (dpc = "deliver" /\ dpc' # "deliver") =>
                    /\ hpc'[dreq] = "forward"
                    /\ hconn'[dreq] = dconn
                    /\ result'[dreq] = "Matched"
                    /\ (~done => status'[dconn] = "Busy") ]_vars
    /\ \A q \in Reqs, c \in Conns :
          (hpc[q] = "submit" /\ ~done /\ OnlyIdle(c))
              ~> \/ (hpc[q] = "forward" /\ hconn[q] = c /\ status[c] = "Busy")
                 \/ done
                 \/ result[q] = "TimedOut"
                 \/ \E c2 \in Conns : c2 # c /\ status[c2] = "Idle"

\* The request holds the only connection there is, which is Busy.
C10_Witness ==
    \E q \in Reqs, c \in Conns :
        /\ hpc[q] = "forward" /\ hconn[q] = c /\ status[c] = "Busy"
        /\ result[q] = "Matched"
        /\ \A c2 \in Conns : c2 # c => status[c2] = "None"
        /\ ~done

\* C11: a scan that finds its deadline elapsed (line 159) ends as TimedOut:
\* it goes straight to the close of the slot, hands the handler no
\* connection and changes no connection's status; a TimedOut request never
\* holds a connection.  And no connection is left Busy with nobody to use it:
\* a Busy connection is either the one the dispatcher is delivering, or is
\* held by exactly one request handler.
C11_TimeoutLeavesNoneBusy ==
    /\ [][ (dpc = "top" /\ dpc' # "top" /\ expired) =>
               /\ dpc' = "close"
               /\ dreq' = dreq
               /\ result'[dreq] = "TimedOut"
               /\ hconn'[dreq] = None
               /\ status' = status ]_vars
    /\ [](\A q \in Reqs :
             result[q] = "TimedOut" =>
                 /\ hconn[q] = None
                 /\ hpc[q] \in {"wait", "done"}
                 /\ (slot[q] = "closed" \/ (dreq = q /\ dpc = "close")))
    /\ [](\A c \in Conns :
             status[c] = "Busy" =>
                 IF dpc = "deliver" /\ dconn = c
                 THEN Holders(c) = {}
                 ELSE Cardinality(Holders(c)) = 1)

\* One request has timed out and got the closed slot, while the only
\* connection that was ever Idle is Busy in the hands of the other request.
C11_Witness ==
    \E q1, q2 \in Reqs, c \in Conns :
        /\ result[q1] = "TimedOut" /\ slot[q1] = "closed" /\ hpc[q1] = "done"
        /\ hpc[q2] = "forward" /\ hconn[q2] = c /\ status[c] = "Busy"
        /\ \A c2 \in Conns : c2 # c => status[c2] = "None"

\* C12: when the forward on a dispatched connection does not end with the
\* connection released, the handler's step leaves that connection Closed and
\* out of every live set, and changes the status of no other connection and
\* no other member of any pool.  Closed is final: a Closed connection never
\* changes status again, and one that no handler holds and the dispatcher is
\* not delivering is never held or delivered afterwards.
Unheld(c) == Holders(c) = {} /\ ~(dpc = "deliver" /\ dconn = c)

C12_ForwardFailureIsLocal ==
    [][ /\ \A q \in Reqs :
             (hpc[q] = "forward" /\ hpc'[q] # "forward"
                 /\ status'[hconn[q]] # "Idle") =>
                 /\ status'[hconn[q]] = "Closed"
                 /\ \A c \in Conns : c # hconn[q] => status'[c] = status[c]
                 /\ \A p \in PoolObjs : live'[p] = live[p] \ {hconn[q]}
                 /\ Unheld(hconn[q])'
        /\ \A c \in Conns :
             status[c] = "Closed" =>
                 /\ status'[c] = "Closed"
                 /\ (Unheld(c) => Unheld(c)') ]_vars

\* The server is running, one connection of a pool was closed by a failed
\* forward, and the other connection of that pool is still live, Idle or
\* Busy.
C12_Witness ==
    /\ ~done
    /\ \E p \in PoolObjs, c1, c2 \in Conns :
          /\ InRegistry(p)
          /\ status[c1] = "Closed" /\ Unheld(c1)
          /\ live[p] = {c2} /\ status[c2] \in {"Idle", "Busy"}
          /\ \A p2 \in PoolObjs : p2 # p => pid[p2] = <<>>

\* C13: a Register call with the wrong secret ends with an error before any
\* upgrade: it has no transport and registers nothing, and its step changes
\* neither the pool list nor any connection, request or dispatcher state.  A
\* Request call whose destination header is missing or does not parse ends
\* with an error before any dispatch: it creates no ConnectionRequest, the
\* dispatcher never has it, and its step changes neither the pool list nor
\* any connection.
C13_RejectedAtBoundary ==
    /\ [][ /\ \A r \in Regs :
                 (rpc[r] = "new" /\ rpc'[r] = "rejected") =>
                     /\ ws'[r] = "none"
                     /\ UNCHANGED <<poolVars, reqVars, dispVars, lockVars>>
            /\ \A q \in Reqs :
                 (hpc[q] = "new" /\ result'[q] = "Rejected") =>
                     /\ hpc'[q] = "done"
                     /\ slot'[q] = "none"
                     /\ UNCHANGED <<poolVars, dispVars, lockVars, hconn>> ]_vars
    /\ [](\A r \in Regs :
             rpc[r] = "rejected" =>
                 /\ ws[r] = "none"
                 /\ status[r] = "None"
                 /\ \A p \in PoolObjs : r \notin live[p] /\ r \notin idle[p])
    /\ [](\A q \in Reqs :
             result[q] = "Rejected" =>
                 /\ hpc[q] = "done"
                 /\ slot[q] = "none"
                 /\ hconn[q] = None
                 /\ dreq # q)

\* One registration and one request were rejected, while the other
\* registration went through and the other request holds its connection.
C13_Witness ==
    \E r1, r2 \in Regs, q1, q2 \in Reqs :
        /\ rpc[r1] = "rejected" /\ rpc[r2] = "done"
        /\ result[q1] = "Rejected"
        /\ hpc[q2] = "forward" /\ hconn[q2] = r2 /\ status[r2] = "Busy"

\* C14 (the claim as stated): the pool list is written only by a task that
\* holds the lock exclusively, the dispatcher reads it holding the lock
\* shared, and the reads of Request (line 217) and of Shutdown (line 322),
\* which take no lock, at least never happen while another task holds the
\* lock exclusively.
C14_PoolListUnderLock ==
    [][ /\ pools' # pools => lockW # Unlocked
        /\ (dpc = "snap" /\ dpc' # "snap") => lockR
        /\ \A q \in Reqs :
             (hpc[q] = "new" /\ hpc'[q] # "new" /\ result'[q] # "Rejected") =>
                 lockW = Unlocked
        /\ (cpc["shutdown"] = "range" /\ cpc'["shutdown"] # "range") =>
                 lockW = Unlocked ]_vars

\* C15 (the claim as stated): a call that has submitted its
\* ConnectionRequest has its outcome before the dispatch timeout has run
\* out.  The dispatcher's deadline for its current request starts after that
\* request was received, so a call that was already blocked in its send at
\* that moment has waited for the whole timeout when that deadline elapses:
\* by then it is no longer waiting to be received.
C15_OutcomeWithinTimeout ==
    [][ (~expired /\ expired') =>
            \A q \in waiting : hpc[q] # "submit" ]_vars

\* C16: the dispatcher holds the lock shared only between its RLock and the
\* end of its snapshot of the pool list: wherever else it stands -- polling
\* the idle channels, calling Take(), delivering, closing the slot, checking
\* the deadline, waiting for a request or for the lock -- it does not hold
\* it, and while it holds it no task holds the lock exclusively.
C16_LockOnlyForSnapshot ==
    /\ dpc # "snap" => ~lockR
    /\ dpc = "snap" => lockR /\ lockW = Unlocked

\* The dispatcher is delivering a connection it has taken while another task
\* holds the lock exclusively.
C16_Witness ==
    /\ dpc = "deliver"
    /\ status[dconn] = "Busy"
    /\ lockW # Unlocked
    /\ ~lockR

\* C17: once Shutdown has been called the dispatcher's loop ends: the scan
\* it may be in ends and its slot is closed, and the dispatcher leaves its
\* loop for good.  From the close of s.dispatcher on, the dispatcher takes no
\* new request.
C17_DispatcherExits ==
    /\ [][ dispClosed => (dreq' = dreq \/ dreq' = None) ]_vars
    /\ [][ dpc = "exited" => dpc' = "exited" /\ dreq' = None ]_vars
    /\ done ~> (dpc = "exited" /\ dreq = None)

\* The dispatcher has left its loop after having resolved a request.
C17_Witness ==
    /\ dpc = "exited"
    /\ done /\ dispClosed
    /\ \E q \in Reqs : slot[q] = "closed" /\ hpc[q] = "done"

\* C18: a registration that completes leaves the pool of its greeting's
\* identity in the registry with the size its greeting states, whether it
\* created the pool or found it, and with its connection in it; it leaves
\* the size of every other pool as it was; and no other step changes the
\* size of any pool.  So each pool's size is the one of the latest completed
\* registration for its identity.
C18_SizeFromLatestGreeting ==
    [][ /\ \A r \in Regs :
             (rpc[r] = "add" /\ rpc'[r] = "done") =>
                 \E p \in PoolObjs :
                     /\ InRegistry(p)'
                     /\ pid'[p] = GreetingID(greeting[r])
                     /\ psize'[p] = GreetingSize(greeting[r])
                     /\ r \in live'[p]
                     /\ \A p2 \in PoolObjs : p2 # p => psize'[p2] = psize[p2]
        /\ (\A r \in Regs : ~(rpc[r] = "add" /\ rpc'[r] = "done")) =>
                 psize' = psize ]_vars

\* A pool that one registration created and another one joined has the
\* larger of the sizes a greeting can state.
C18_Witness ==
    \E p \in PoolObjs, r \in Regs :
        /\ r # p
        /\ rpc[r] = "done" /\ rpc[p] = "done"
        /\ InRegistry(p)
        /\ r \in live[p]
        /\ psize[p] > 1

\* C19: the dispatcher works on one request at a time.  At most one request
\* that it has received has its slot still open; it receives a request only
\* when it has none; and at that moment every request it received before
\* has its outcome and its slot closed.  So the outcomes come in the order
\* in which the requests were received.
Received(q) ==
    /\ hpc[q] \in {"wait", "forward", "done"}
    /\ slot[q] # "none"
    /\ result[q] # "Panic"

C19_OneRequestAtATime ==
    /\ [](Cardinality({ q \in Reqs : Received(q) /\ slot[q] = "open" }) <= 1)
    /\ [](\A q \in Reqs : (Received(q) /\ slot[q] = "open") => dreq = q)
    /\ [][ \A q \in Reqs :
             (dreq' = q /\ dreq # q) =>
                 /\ dpc = "recv" /\ dreq = None
                 /\ ~Received(q) /\ Received(q)'
                 /\ \A q2 \in Reqs :
                      (q2 # q /\ Received(q2)) =>
                          /\ slot[q2] = "closed"
                          /\ result[q2] \in {"Matched", "TimedOut", "Unavailable"} ]_vars

\* The dispatcher is scanning for one request after it has resolved, and
\* closed the slot of, the other.
C19_Witness ==
    \E q1, q2 \in Reqs :
        /\ q1 # q2
        /\ dreq = q2 /\ dpc \in Scanning
        /\ Received(q1) /\ slot[q1] = "closed"

\* C20 (the claim as stated): the connection a handler receives from its
\* slot (line 235) is Busy at the moment it receives it.
C20_ReceivedIsBusy ==
    [][ \A q \in Reqs :
          (hpc[q] = "wait" /\ hpc'[q] = "forward") =>
              status'[hconn'[q]] = "Busy" ]_vars

====
